---- MODULE Spec2Model ----
(***************************************************************************)
(* omego/upgrade.py: the install / upgrade orchestrator (Install.__init__) *)
(* and its two platform variants (UnixInstall, WindowsInstall).            *)
(*                                                                         *)
(* One run of Install.__init__ is modelled phase by phase: every method it *)
(* calls is one action, `pc` is the position inside __init__.  The file    *)
(* system is reduced to what the code reads and writes: the stable pointer *)
(* args.sym, the sidecar file <sym>.target, the release directories, their *)
(* archives <dir>.zip and their etc/grid/config.xml.  Every external call  *)
(* (system call, admin command, collaborator) is recorded in `calls`, in   *)
(* the order the code issues it, with its outcome.                         *)
(*                                                                         *)
(* The module uses `basestring` (lines 226, 237, 406), so the interpreter  *)
(* is Python 2: OSError and IOError are unrelated exception classes, and   *)
(* on Windows os.symlink / os.readlink / os.path.samefile do not exist     *)
(* (AttributeError), so WindowsInstall always takes its fallback branches. *)
(***************************************************************************)
EXTENDS Integers, Sequences, FiniteSets, TLC

\* Most options given on one command line (every --prestartfile counts);
\* the options not given keep their defaults.
MaxOptions == 2

\* ------------------------------------------------------------------ paths
\* A path is the sequence of its segments: "B/" is <<"B", "">>.
A == <<"A">>
B == <<"B">>
BSlash == <<"B", "">>

\* What a user can pass as a server directory / what a pointer can hold.
RawPaths == {A, B, BSlash}

\* The release directories that can exist.
Dirs == {"A", "B"}

NoLink == <<>>
NoFile == "none"

Trivial(s) == s \in {"", "."}

\* os.path.normpath: drops empty and "." segments.
NormPath(p) ==
  LET q == SelectSeq(p, LAMBDA s : ~Trivial(s))
  IN IF q = <<>> THEN <<".">> ELSE q

\* The directory the kernel resolves a path to (one level deep here).
DirOf(p) == SelectSeq(p, LAMBDA s : ~Trivial(s))[1]

\* target + '.zip' : the suffix is glued to the last segment as written.
ZipName(p) == [base |-> p, ext |-> ".zip"]

\* str.lower() on the values a flag option can take.
Lower(s) ==
  CASE s = "False" -> "false"
    [] s = "TRUE" -> "true"
    [] OTHER -> s

FlagValues == {"true", "false", "False"}

\* Pre-start inputs: two files and a directory.
PrestartInputs == {"f1", "f2", "d1"}

\* The config.xml a configured release directory carries.
ContentOf(d) == IF d = "A" THEN "c1" ELSE "c2"

\* ------------------------------------------------------------------ state
VARIABLES
  platform,    \* "unix" (UnixInstall) or "windows" (WindowsInstall)
  cmd,         \* "install" or "upgrade"
  args,        \* the parsed, post-processed arguments
  pc,          \* position inside Install.__init__, "started" or "aborted"
  code,        \* Stop code (0, 30, 40, 50), 1 for any other exception, -1 none
  server_dir,  \* what get_server_dir returned (self.dir), NoLink before
  link,        \* text of the symlink at args.sym, NoLink when absent
  sidecar,     \* content of <sym>.target, NoLink when the file is absent
  dirs,        \* the release directories that exist
  zips,        \* the archive files that exist
  cfg,         \* cfg[d]: content of d/etc/grid/config.xml, NoFile when absent
  calls,       \* the external calls issued so far, in order
  fs0          \* history: the file system the run found

vars == <<platform, cmd, args, pc, code, server_dir, link, sidecar,
          dirs, zips, cfg, calls, fs0>>

fs == <<link, sidecar, dirs, zips, cfg>>

FileSystem == [link |-> link, sidecar |-> sidecar, dirs |-> dirs,
               zips |-> zips, cfg |-> cfg]

Call(op, arg, ok) == [op |-> op, arg |-> arg, ok |-> ok]

\* ------------------------------------------------------------------ args
\* args.server: not given (the release is downloaded), a directory, or a
\* zip file that unpacks to B.
NoServer == <<>>
BZip == <<"B.zip">>
Servers == {NoServer, BZip} \cup RawPaths

RECURSIVE SeqsUpTo(_, _)
SeqsUpTo(S, n) ==
  IF n = 0 THEN {<<>>}
  ELSE LET shorter == SeqsUpTo(S, n - 1)
       IN shorter \cup {Append(s, x) : s \in shorter, x \in S}

\* The options of InstallBaseCommand / InstallCommand / UpgradeCommand that
\* Install reads.  argparse leaves prestartfile and archivelogs None when
\* not given (here <<>> and FALSE).
OptionNames ==
  {"skipunzip", "ignoreconfig", "prestartfile", "skipweb", "skipdelete",
   "skipdeletezip", "initdb", "upgradedb", "archivelogs"}

\* The defaults: lines 382-384 for the skip flags, argparse for the rest.
Defaults ==
  [skipunzip |-> FALSE,
   ignoreconfig |-> FALSE,
   prestartfile |-> <<>>,
   skipweb |-> "false",
   skipdelete |-> "true",
   skipdeletezip |-> "false",
   initdb |-> FALSE,
   upgradedb |-> FALSE,
   archivelogs |-> FALSE]

Options ==
  [skipunzip : BOOLEAN,
   ignoreconfig : BOOLEAN,
   prestartfile : SeqsUpTo(PrestartInputs, MaxOptions),
   skipweb : {"false", "true"},
   skipdelete : FlagValues,
   skipdeletezip : {"false", "true"},
   initdb : BOOLEAN,
   upgradedb : BOOLEAN,
   archivelogs : BOOLEAN]

\* How many options the command line gave.
Given(o) ==
  Cardinality({f \in OptionNames \ {"prestartfile"} : o[f] # Defaults[f]})
    + Len(o.prestartfile)

\* InstallCommand: --initdb and --upgradedb are mutually exclusive and
\* there is no --archivelogs.  UpgradeCommand: no --initdb.
OptionsOf(c) ==
  {o \in Options :
     /\ Given(o) <= MaxOptions
     /\ IF c = "install"
        THEN ~(o.initdb /\ o.upgradedb) /\ ~o.archivelogs
        ELSE ~o.initdb}

WithServer(o, s) == [f \in OptionNames \cup {"server"} |->
                       IF f = "server" THEN s ELSE o[f]]

\* os.path.exists(args.sym): follows the link.
PathExists(l, ds) == l # NoLink /\ DirOf(l) \in ds

\* ------------------------------------------------------------------ Init
\* The file system a run can find: nothing installed, a previous install
\* whose pointer designates an existing directory, or a pointer left
\* dangling.  Every release directory has its archive beside it; only the
\* directory the pointer designates has been configured, and even that
\* one may have lost its config.xml.
InitFS ==
  /\ link \in {NoLink, A, BSlash}
  /\ sidecar = IF platform = "windows" THEN link ELSE NoLink
  /\ dirs \in SUBSET Dirs
  /\ zips = {ZipName(<<d>>) : d \in dirs}
  /\ cfg \in [Dirs -> {NoFile, "c1", "c2"}]
  /\ \A d \in Dirs :
       IF PathExists(link, dirs) /\ DirOf(link) = d
       THEN cfg[d] \in {NoFile, ContentOf(d)}
       ELSE cfg[d] = NoFile

Init ==
  /\ platform \in {"unix", "windows"}
  /\ cmd \in {"install", "upgrade"}
  /\ \E o \in OptionsOf(cmd), s \in Servers : args = WithServer(o, s)
  /\ pc = "check"
  /\ code = -1
  /\ server_dir = NoLink
  /\ InitFS
  /\ calls = <<>>
  /\ fs0 = FileSystem

\* ------------------------------------------------------------------ helpers
Abort(c) ==
  /\ pc' = "aborted"
  /\ code' = c

newinstall == cmd = "install"

\* ------------------------------------------------------------ pointer ops
\* UnixInstall.symlink / WindowsInstall.symlink.  os.symlink and
\* CreateSymbolicLink fail when the link path is taken; `env` is the
\* outcome the platform gives otherwise: the call goes through, the link
\* cannot be created, or (Windows) the link is created and the sidecar
\* cannot be opened for writing.  Result: the pointer, the sidecar and
\* whether the call raised.  Only the Windows variant writes the sidecar,
\* and it writes targetdir as given.
SymlinkOutcomes == {"ok", "link fails", "write fails"}

SymlinkOk(l, env) == env # "link fails" /\ l = NoLink

SidecarWritten(env) == platform = "windows" /\ env # "write fails"

\* Mutant: the Windows variant creates the link and leaves the sidecar.
SymlinkWithoutSidecar(targetdir, l, sc, env) ==
  IF SymlinkOk(l, env)
  THEN [raised |-> platform = "windows" /\ env = "write fails",
        link |-> targetdir, sidecar |-> sc]
  ELSE [raised |-> TRUE, link |-> l, sidecar |-> sc]

\* Mutant: a failed link call is logged and not raised again.
SymlinkSwallowsFailure(targetdir, l, sc, env) ==
  IF SymlinkOk(l, env)
  THEN [raised |-> FALSE, link |-> targetdir,
        sidecar |-> IF SidecarWritten(env) THEN targetdir ELSE sc]
  ELSE [raised |-> FALSE, link |-> l, sidecar |-> sc]

Symlink(targetdir, l, sc, env) ==
  IF SymlinkOk(l, env)
  THEN [raised |-> platform = "windows" /\ env = "write fails",
        link |-> targetdir,
        sidecar |-> IF SidecarWritten(env) THEN targetdir ELSE sc]
  ELSE [raised |-> TRUE, link |-> l, sidecar |-> sc]

\* UnixInstall.rmlink / WindowsInstall.rmlink: os.unlink (or os.rmdir)
\* of the pointer; the sidecar is left as it is.
RmlinkOk(l, envok) == envok /\ l # NoLink

Rmlink(l, envok) ==
  IF RmlinkOk(l, envok)
  THEN [raised |-> FALSE, link |-> NoLink]
  ELSE [raised |-> TRUE, link |-> l]

\* UnixInstall.readlink: normpath(os.readlink(link)), OSError on failure.
\* WindowsInstall.readlink: os.readlink is missing, so the sidecar is read
\* and normalised; IOError when it cannot be opened.
Readlink(l, sc, envok) ==
  IF platform = "unix"
  THEN IF envok /\ l # NoLink
       THEN [exc |-> "none", value |-> NormPath(l)]
       ELSE [exc |-> "OSError", value |-> NoLink]
  ELSE IF envok /\ sc # NoLink
       THEN [exc |-> "none", value |-> NormPath(sc)]
       ELSE [exc |-> "IOError", value |-> NoLink]

\* UnixInstall.samedir: os.path.samefile, which raises OSError when either
\* path is missing.  WindowsInstall.samedir: a temporary file is created
\* in targetdir (raises when targetdir is missing) and looked up through
\* the link (False when the link does not resolve).
SamedirRaises(targetdir, l, ds) ==
  IF platform = "unix"
  THEN ~(DirOf(targetdir) \in ds /\ PathExists(l, ds))
  ELSE DirOf(targetdir) \notin ds

\* Mutant: the two path strings are compared instead of the directories.
SamedirByName(targetdir, l, ds) ==
  PathExists(l, ds) /\ targetdir = l

Samedir(targetdir, l, ds) ==
  PathExists(l, ds) /\ DirOf(targetdir) = DirOf(l)

\* ------------------------------------------------------------------ phases
\* Install.__init__, lines 22-37: the precondition check.
\* Mutant: install does not look at the pointer.
CheckCodeInstallUnchecked(c, exists) ==
  IF c = "upgrade" /\ ~exists THEN 30 ELSE -1

\* Mutant: upgrade does not look at the pointer.
CheckCodeUpgradeUnchecked(c, exists) ==
  IF c = "install" /\ exists THEN 30 ELSE -1

CheckCode(c, exists) ==
  IF c = "upgrade"
  THEN IF ~exists THEN 30 ELSE -1
  ELSE IF exists THEN 30 ELSE -1

Check ==
  /\ pc = "check"
  /\ LET c == CheckCode(cmd, PathExists(link, dirs))
     IN IF c # -1 THEN Abort(c)
        ELSE pc' = "get_server_dir" /\ code' = code
  /\ UNCHANGED <<fs0, platform, cmd, args, server_dir, fs, calls>>

\* Install.get_server_dir.  fileutils.get_as_local_path answers
\* 'directory' for an existing directory, 'file' for an existing file and
\* raises for a path that does not exist; download and unzip create the
\* release directory (and the download leaves the archive beside it).
Ptype(server, ds, zs) ==
  IF server = BZip
  THEN IF ZipName(B) \in zs THEN "file" ELSE "missing"
  ELSE IF DirOf(server) \in ds THEN "directory" ELSE "missing"

\* Mutant: skipunzip stops a download but not the unpacking of a local
\* archive.
UnzipDisabledForDownloadOnly(a, ptype) ==
  a.skipunzip /\ a.server = NoServer

UnzipDisabled(a, ptype) ==
  a.skipunzip /\ (a.server = NoServer \/ ptype = "file")

GetServerDir ==
  /\ pc = "get_server_dir"
  /\ LET ptype == IF args.server = NoServer THEN "none"
                  ELSE Ptype(args.server, dirs, zips)
     IN IF ptype = "missing"
        THEN /\ Abort(1)
             /\ calls' = Append(calls, Call("get_as_local_path", args.server, FALSE))
             /\ UNCHANGED <<server_dir, fs>>
        ELSE IF UnzipDisabled(args, ptype)
        THEN /\ Abort(0)
             /\ UNCHANGED <<server_dir, fs, calls>>
        ELSE IF ptype = "directory"
        THEN /\ server_dir' = args.server
             /\ pc' = "link_early"
             /\ UNCHANGED <<code, fs, calls>>
        ELSE /\ server_dir' = B
             /\ dirs' = dirs \cup {"B"}
             /\ zips' = zips \cup {ZipName(B)}
             /\ calls' = Append(calls,
                   Call(IF ptype = "none" THEN "download" ELSE "unzip", B, TRUE))
             /\ pc' = "link_early"
             /\ UNCHANGED <<code, link, sidecar, cfg>>
  /\ UNCHANGED <<fs0, platform, cmd, args>>

\* Mutant: no early link, the pointer is left to the switchover.
LinkEarlySkipped ==
  /\ pc = "link_early"
  /\ pc' = "setup"
  /\ UNCHANGED <<fs0, platform, cmd, args, code, server_dir, fs, calls>>

\* Install.__init__, lines 41-47: on install the pointer is created at
\* once; a failure propagates.
LinkEarly ==
  /\ pc = "link_early"
  /\ IF newinstall
     THEN \E env \in SymlinkOutcomes :
            LET r == Symlink(server_dir, link, sidecar, env)
            IN /\ link' = r.link
               /\ sidecar' = r.sidecar
               /\ calls' = Append(calls, Call("symlink", server_dir, ~r.raised))
               /\ IF r.raised THEN Abort(1)
                  ELSE pc' = "setup" /\ code' = code
     ELSE /\ pc' = "setup"
          /\ UNCHANGED <<code, link, sidecar, calls>>
  /\ UNCHANGED <<fs0, platform, cmd, args, server_dir, dirs, zips, cfg>>

\* Mutant: the old service is stopped whatever the mode.
SetupThenStopAlways ==
  /\ pc = "setup"
  /\ \E cliok \in BOOLEAN, prevok \in BOOLEAN :
       LET c1 == Append(calls, Call("setup_omero_cli", server_dir, cliok))
           c2 == IF cliok /\ ~newinstall
                 THEN Append(c1, Call("setup_previous_omero_env", <<>>, prevok))
                 ELSE c1
           failed == ~cliok \/ (~newinstall /\ ~prevok)
       IN /\ calls' = c2
          /\ IF failed THEN Abort(1)
             ELSE /\ pc' = "stop"
                  /\ code' = code
  /\ UNCHANGED <<fs0, platform, cmd, args, server_dir, fs>>

\* Install.__init__, lines 49-57: External(server_dir), setup_omero_cli
\* and, on upgrade, setup_previous_omero_env; any failure propagates.
Setup ==
  /\ pc = "setup"
  /\ \E cliok \in BOOLEAN, prevok \in BOOLEAN :
       LET c1 == Append(calls, Call("setup_omero_cli", server_dir, cliok))
           c2 == IF cliok /\ ~newinstall
                 THEN Append(c1, Call("setup_previous_omero_env", <<>>, prevok))
                 ELSE c1
           failed == ~cliok \/ (~newinstall /\ ~prevok)
       IN /\ calls' = c2
          /\ IF failed THEN Abort(1)
             ELSE /\ pc' = IF newinstall THEN "configure" ELSE "stop"
                  /\ code' = code
  /\ UNCHANGED <<fs0, platform, cmd, args, server_dir, fs>>

\* Install.web: "false" == self.args.skipweb.lower().
Web(a) == Lower(a.skipweb) = "false"

\* The commands stopweb / startweb issue, by platform: `runner` is "bin"
\* (old environment) or "run" (new one).
WebCommands(runner, words) ==
  IF platform = "unix"
  THEN <<[op |-> runner, arg |-> words]>>
  ELSE <<[op |-> runner, arg |-> words], [op |-> "iisreset", arg |-> <<>>]>>

\* The calls a command list leaves behind when its failAt-th command
\* raises (0: none does): the commands before it succeed, it fails, the
\* ones after it are not issued.
Issue(cmds, failAt) ==
  [i \in 1..(IF failAt = 0 THEN Len(cmds) ELSE failAt) |->
     Call(cmds[i].op, cmds[i].arg, i # failAt)]

CoreStop ==
  <<[op |-> "bin", arg |-> <<"admin", "status", "--nodeonly">>],
    [op |-> "bin", arg |-> <<"admin", "stop">>]>>

\* UnixInstall.stopweb / WindowsInstall.stopweb.
WebStop ==
  WebCommands("bin", IF platform = "unix" THEN <<"web", "stop">>
                     ELSE <<"web", "iis", "--remove">>)

\* Mutant: one try block around the core stop and the web stop.
StopCallsOneTry(a, corefail, webfail) ==
  Issue(CoreStop, corefail) \o
    (IF Web(a) /\ corefail = 0 THEN Issue(WebStop, webfail) ELSE <<>>)

\* Install.stop: what the two try blocks issue when the corefail-th core
\* command and the webfail-th web command raise (0: none).
StopCalls(a, corefail, webfail) ==
  Issue(CoreStop, corefail) \o
    (IF Web(a) THEN Issue(WebStop, webfail) ELSE <<>>)

\* Install.stop: both try blocks swallow every exception.
Stop ==
  /\ pc = "stop"
  /\ \E corefail \in 0..Len(CoreStop), webfail \in 0..Len(WebStop) :
       calls' = calls \o StopCalls(args, corefail, webfail)
  /\ pc' = "archive_logs"
  /\ UNCHANGED <<fs0, platform, cmd, args, code, server_dir, fs>>

\* Install.archive_logs: fileutils.zip is called when the option is set;
\* nothing catches what it raises.
ArchiveLogs ==
  /\ pc = "archive_logs"
  /\ IF args.archivelogs
     THEN \E zipok \in BOOLEAN :
            /\ calls' = Append(calls, Call("zip", <<"var", "log">>, zipok))
            /\ IF zipok THEN pc' = "configure" /\ code' = code
               ELSE Abort(1)
     ELSE /\ pc' = "configure"
          /\ UNCHANGED <<code, calls>>
  /\ UNCHANGED <<fs0, platform, cmd, args, server_dir, fs>>

\* samecontents (lines 121-128): os.path.samefile where it exists (the
\* two paths are one file), a comparison of what the files hold where it
\* does not.
SameContents(odir, tdir, c) ==
  IF platform = "unix" THEN odir = tdir ELSE c[odir] = c[tdir]

\* Mutant: a missing source config.xml is passed over, nothing is copied.
CopyConfigMissingIgnored(copyold, l, tdir, ds, c) ==
  IF copyold
  THEN IF ~(PathExists(l, ds) /\ c[DirOf(l)] # NoFile)
       THEN [code |-> -1, cfg |-> c, calls |-> <<>>]
       ELSE IF c[tdir] # NoFile /\ SameContents(DirOf(l), tdir, c)
       THEN [code |-> -1, cfg |-> c, calls |-> <<>>]
       ELSE [code |-> -1, cfg |-> [c EXCEPT ![tdir] = c[DirOf(l)]],
             calls |-> <<Call("copy", <<DirOf(l), tdir>>, TRUE)>>]
  ELSE IF c[tdir] # NoFile
       THEN [code |-> -1, cfg |-> [c EXCEPT ![tdir] = NoFile],
             calls |-> <<Call("remove", <<tdir>>, TRUE)>>]
       ELSE [code |-> -1, cfg |-> c, calls |-> <<>>]

\* Install.configure, lines 130-148: the copy / delete of config.xml.
\* [code, cfg, calls], code -1 when the method goes on.
CopyConfig(copyold, l, tdir, ds, c) ==
  IF copyold
  THEN IF ~(PathExists(l, ds) /\ c[DirOf(l)] # NoFile)
       THEN [code |-> 40, cfg |-> c, calls |-> <<>>]
       ELSE IF c[tdir] # NoFile /\ SameContents(DirOf(l), tdir, c)
       THEN [code |-> -1, cfg |-> c, calls |-> <<>>]
       ELSE [code |-> -1, cfg |-> [c EXCEPT ![tdir] = c[DirOf(l)]],
             calls |-> <<Call("copy", <<DirOf(l), tdir>>, TRUE)>>]
  ELSE IF c[tdir] # NoFile
       THEN [code |-> -1, cfg |-> [c EXCEPT ![tdir] = NoFile],
             calls |-> <<Call("remove", <<tdir>>, TRUE)>>]
       ELSE [code |-> -1, cfg |-> c, calls |-> <<>>]

\* fileutils.get_as_local_path(f, 'backup') on a pre-start input.
Ftype(f) == IF f = "d1" THEN "directory" ELSE "file"

\* Mutant: an input that is not a file is skipped and the loop goes on.
RECURSIVE PrestartSkipsNonFiles(_, _, _)
PrestartSkipsNonFiles(files, i, failAt) ==
  IF i > Len(files) THEN [code |-> -1, calls |-> <<>>]
  ELSE IF Ftype(files[i]) # "file"
  THEN PrestartSkipsNonFiles(files, i + 1, failAt)
  ELSE IF failAt = i
  THEN [code |-> 1, calls |-> <<Call("run", <<"load", files[i]>>, FALSE)>>]
  ELSE LET rest == PrestartSkipsNonFiles(files, i + 1, failAt)
       IN [code |-> rest.code,
           calls |-> <<Call("run", <<"load", files[i]>>, TRUE)>> \o rest.calls]

\* Install.configure, lines 150-157: the loop over prestartfile from its
\* i-th entry on; the failAt-th admin command of configure raises.
RECURSIVE Prestart(_, _, _)
Prestart(files, i, failAt) ==
  IF i > Len(files) THEN [code |-> -1, calls |-> <<>>]
  ELSE IF Ftype(files[i]) # "file" THEN [code |-> 50, calls |-> <<>>]
  ELSE IF failAt = i
  THEN [code |-> 1, calls |-> <<Call("run", <<"load", files[i]>>, FALSE)>>]
  ELSE LET rest == Prestart(files, i + 1, failAt)
       IN [code |-> rest.code,
           calls |-> <<Call("run", <<"load", files[i]>>, TRUE)>> \o rest.calls]

\* Install.configure with configure_ports.
Configure ==
  /\ pc = "configure"
  /\ \E failAt \in 0..(Len(args.prestartfile) + 1) :
       LET copyold == ~newinstall /\ ~args.ignoreconfig
           cp == CopyConfig(copyold, link, DirOf(server_dir), dirs, cfg)
           pre == Prestart(args.prestartfile, 1, failAt)
           portsok == failAt # Len(args.prestartfile) + 1
           ports == Call("run", <<"admin", "ports">>, portsok)
       IN IF cp.code # -1
          THEN /\ Abort(cp.code)
               /\ UNCHANGED <<cfg, calls>>
          ELSE /\ cfg' = cp.cfg
               /\ IF pre.code # -1
                  THEN /\ Abort(pre.code)
                       /\ calls' = calls \o cp.calls \o pre.calls
                  ELSE /\ calls' = calls \o cp.calls \o pre.calls \o <<ports>>
                       /\ IF portsok
                          THEN pc' = "directories" /\ code' = code
                          ELSE Abort(1)
  /\ UNCHANGED <<fs0, platform, cmd, args, server_dir, link, sidecar, dirs, zips>>

\* Mutant: the flag is compared without lower().
DeleteEnabledCaseSensitive(flag) == flag = "false"

\* Mutant: the test is inverted.
DeleteEnabledInverted(flag) == Lower(flag) # "false"

\* "false" == self.args.skipdelete.lower() (and skipdeletezip).
DeleteEnabled(flag) == Lower(flag) = "false"

\* The exceptions of readlink that directories() catches (line 183).
Caught(exc) == exc = "IOError"

\* Mutant: the pointer is swapped first, the previous directory and
\* archive are deleted afterwards.
DirectoriesSwapBeforeDelete ==
  /\ pc = "directories"
  /\ IF SamedirRaises(server_dir, link, dirs)
     THEN /\ Abort(1)
          /\ UNCHANGED <<fs, calls>>
     ELSE IF Samedir(server_dir, link, dirs)
     THEN /\ pc' = IF newinstall THEN "init_db" ELSE "upgrade_db"
          /\ UNCHANGED <<code, fs, calls>>
     ELSE \E readok \in BOOLEAN, rmtreeok \in BOOLEAN, unlinkok \in BOOLEAN,
             rmlinkok \in BOOLEAN, symok \in SymlinkOutcomes :
       LET r == Readlink(link, sidecar, readok)
           c0 == Append(calls, Call("readlink", link, r.exc = "none"))
       IN IF r.exc # "none" /\ ~Caught(r.exc)
          THEN /\ Abort(1)
               /\ calls' = c0
               /\ UNCHANGED fs
          ELSE
            LET target == r.value
                readable == target # NoLink
                rm == Rmlink(link, rmlinkok)
                c1 == Append(c0, Call("rmlink", link, ~rm.raised))
                sy == Symlink(server_dir, rm.link, sidecar, symok)
                c2 == Append(c1, Call("symlink", server_dir, ~sy.raised))
                swapped == ~rm.raised /\ ~sy.raised
                deldir == DeleteEnabled(args.skipdelete) /\ readable /\ swapped
                delzip == DeleteEnabled(args.skipdeletezip) /\ readable /\ swapped
                dirgone == deldir /\ rmtreeok /\ DirOf(target) \in dirs
                zipgone == delzip /\ unlinkok /\ ZipName(target) \in zips
                c3 == IF deldir
                      THEN Append(c2, Call("rmtree", target, dirgone))
                      ELSE c2
                c4 == IF delzip
                      THEN Append(c3, Call("unlink", ZipName(target).base, zipgone))
                      ELSE c3
            IN /\ dirs' = IF dirgone THEN dirs \ {DirOf(target)} ELSE dirs
               /\ cfg' = IF dirgone THEN [cfg EXCEPT ![DirOf(target)] = NoFile]
                         ELSE cfg
               /\ zips' = IF zipgone THEN zips \ {ZipName(target)} ELSE zips
               /\ IF rm.raised
                  THEN /\ Abort(1)
                       /\ calls' = c1
                       /\ UNCHANGED <<link, sidecar>>
                  ELSE /\ link' = sy.link
                       /\ sidecar' = sy.sidecar
                       /\ IF sy.raised THEN Abort(1) /\ calls' = c2
                          ELSE /\ pc' = IF newinstall THEN "init_db"
                                        ELSE "upgrade_db"
                               /\ code' = code
                               /\ calls' = c4
  /\ UNCHANGED <<fs0, platform, cmd, args, server_dir>>

\* Install.directories.
Directories ==
  /\ pc = "directories"
  /\ IF SamedirRaises(server_dir, link, dirs)
     THEN /\ Abort(1)
          /\ UNCHANGED <<fs, calls>>
     ELSE IF Samedir(server_dir, link, dirs)
     THEN /\ pc' = IF newinstall THEN "init_db" ELSE "upgrade_db"
          /\ UNCHANGED <<code, fs, calls>>
     ELSE \E readok \in BOOLEAN, rmtreeok \in BOOLEAN, unlinkok \in BOOLEAN,
             rmlinkok \in BOOLEAN, symok \in SymlinkOutcomes :
       LET r == Readlink(link, sidecar, readok)
           c0 == Append(calls, Call("readlink", link, r.exc = "none"))
       IN IF r.exc # "none" /\ ~Caught(r.exc)
          THEN /\ Abort(1)
               /\ calls' = c0
               /\ UNCHANGED fs
          ELSE
            LET target == r.value
                readable == target # NoLink
                deldir == DeleteEnabled(args.skipdelete) /\ readable
                delzip == DeleteEnabled(args.skipdeletezip) /\ readable
                dirgone == deldir /\ rmtreeok /\ DirOf(target) \in dirs
                zipgone == delzip /\ unlinkok /\ ZipName(target) \in zips
                c1 == IF deldir
                      THEN Append(c0, Call("rmtree", target, dirgone))
                      ELSE c0
                c2 == IF delzip
                      THEN Append(c1, Call("unlink", ZipName(target).base, zipgone))
                      ELSE c1
                rm == Rmlink(link, rmlinkok)
                c3 == Append(c2, Call("rmlink", link, ~rm.raised))
                sy == Symlink(server_dir, rm.link, sidecar, symok)
                c4 == Append(c3, Call("symlink", server_dir, ~sy.raised))
            IN /\ dirs' = IF dirgone THEN dirs \ {DirOf(target)} ELSE dirs
               /\ cfg' = IF dirgone THEN [cfg EXCEPT ![DirOf(target)] = NoFile]
                         ELSE cfg
               /\ zips' = IF zipgone THEN zips \ {ZipName(target)} ELSE zips
               /\ IF rm.raised
                  THEN /\ Abort(1)
                       /\ calls' = c3
                       /\ UNCHANGED <<link, sidecar>>
                  ELSE /\ link' = sy.link
                       /\ sidecar' = sy.sidecar
                       /\ calls' = c4
                       /\ IF sy.raised THEN Abort(1)
                          ELSE /\ pc' = IF newinstall THEN "init_db"
                                        ELSE "upgrade_db"
                               /\ code' = code
  /\ UNCHANGED <<fs0, platform, cmd, args, server_dir>>

\* Install.init_db (called on install only): DbAdmin raises on failure.
InitDb ==
  /\ pc = "init_db"
  /\ IF args.initdb
     THEN \E dbok \in BOOLEAN :
            /\ calls' = Append(calls, Call("DbAdmin", <<"init">>, dbok))
            /\ IF dbok THEN pc' = "upgrade_db" /\ code' = code
               ELSE Abort(1)
     ELSE /\ pc' = "upgrade_db"
          /\ UNCHANGED <<code, calls>>
  /\ UNCHANGED <<fs0, platform, cmd, args, server_dir, fs>>

\* Mutant: a failed database upgrade is logged and the run goes on.
UpgradeDbFailureSwallowed ==
  /\ pc = "upgrade_db"
  /\ IF args.upgradedb
     THEN \E dbok \in BOOLEAN :
            /\ calls' = Append(calls, Call("DbAdmin", <<"upgrade">>, dbok))
            /\ pc' = "save_env_vars" /\ code' = code
     ELSE /\ pc' = "save_env_vars"
          /\ UNCHANGED <<code, calls>>
  /\ UNCHANGED <<fs0, platform, cmd, args, server_dir, fs>>

\* Install.upgrade_db.
UpgradeDb ==
  /\ pc = "upgrade_db"
  /\ IF args.upgradedb
     THEN \E dbok \in BOOLEAN :
            /\ calls' = Append(calls, Call("DbAdmin", <<"upgrade">>, dbok))
            /\ IF dbok THEN pc' = "save_env_vars" /\ code' = code
               ELSE Abort(1)
     ELSE /\ pc' = "save_env_vars"
          /\ UNCHANGED <<code, calls>>
  /\ UNCHANGED <<fs0, platform, cmd, args, server_dir, fs>>

\* Install.__init__, line 72: external.save_env_vars, called bare.
SaveEnvVars ==
  /\ pc = "save_env_vars"
  /\ \E saveok \in BOOLEAN :
       /\ calls' = Append(calls, Call("save_env_vars", <<>>, saveok))
       /\ IF saveok THEN pc' = "start" /\ code' = code
          ELSE Abort(1)
  /\ UNCHANGED <<fs0, platform, cmd, args, server_dir, fs>>

\* Install.start: nothing is caught.
Start ==
  /\ pc = "start"
  /\ LET cmds == <<[op |-> "run", arg |-> <<"admin", "start">>]>> \o
                 (IF Web(args)
                  THEN WebCommands("run",
                         IF platform = "unix" THEN <<"web", "start">>
                         ELSE <<"web", "iis">>)
                  ELSE <<>>)
     IN \E failAt \in 0..Len(cmds) :
          /\ calls' = calls \o Issue(cmds, failAt)
          /\ IF failAt = 0 THEN pc' = "started" /\ code' = code
             ELSE Abort(1)
  /\ UNCHANGED <<fs0, platform, cmd, args, server_dir, fs>>

Next ==
  \/ Check
  \/ GetServerDir
  \/ LinkEarly
  \/ Setup
  \/ Stop
  \/ ArchiveLogs
  \/ Configure
  \/ Directories
  \/ InitDb
  \/ UpgradeDb
  \/ SaveEnvVars
  \/ Start

Spec == Init /\ [][Next]_vars

\* ------------------------------------------------- configure called twice
\* configure(copyold=True, prestartfile) called MaxConfigure times in
\* succession on one Install object of an upgrade: the state at the first
\* call's entry, with `calls` counted from there.
MaxConfigure == 2

AdminPorts == <<"admin", "ports">>

ConfigureReturns ==
  Cardinality({i \in 1..Len(calls) :
                 calls[i].op = "run" /\ calls[i].arg = AdminPorts /\ calls[i].ok})

InitConfigure ==
  /\ platform \in {"unix", "windows"}
  /\ cmd = "upgrade"
  /\ \E o \in OptionsOf("upgrade"), s \in RawPaths :
       /\ ~o.ignoreconfig
       /\ args = WithServer(o, s)
       /\ server_dir = s
  /\ pc = "configure"
  /\ code = -1
  /\ link \in {A, BSlash}
  /\ sidecar = IF platform = "windows" THEN link ELSE NoLink
  /\ dirs = Dirs
  /\ zips = {ZipName(<<d>>) : d \in dirs}
  /\ cfg \in [Dirs -> {NoFile, "c1", "c2"}]
  /\ calls = <<>>
  /\ fs0 = FileSystem

\* The caller calls configure again once it has returned.
ConfigureAgain ==
  /\ pc = "directories"
  /\ ConfigureReturns < MaxConfigure
  /\ pc' = "configure"
  /\ UNCHANGED <<fs0, platform, cmd, args, code, server_dir, fs, calls>>

NextConfigure ==
  \/ Configure
  \/ ConfigureAgain

SpecConfigure == InitConfigure /\ [][NextConfigure]_vars

\* ------------------------------------------------- the emulated pointer
\* WindowsInstall.symlink / rmlink / readlink called in any order on one
\* link path, at most MaxPointerCalls times.  `calls` records each call
\* with its outcome; a readlink call is recorded with the value it
\* returned.
MaxPointerCalls == 4

InitPointer ==
  /\ platform = "windows"
  /\ cmd = "upgrade"
  /\ args = WithServer(Defaults, NoServer)
  /\ pc = "pointer"
  /\ code = -1
  /\ server_dir = NoLink
  /\ link \in {NoLink, A, BSlash}
  /\ sidecar = link
  /\ dirs = Dirs
  /\ zips = {}
  /\ cfg = [d \in Dirs |-> NoFile]
  /\ calls = <<>>
  /\ fs0 = FileSystem

PointerSymlink ==
  /\ pc = "pointer"
  /\ Len(calls) < MaxPointerCalls
  /\ \E t \in RawPaths, env \in SymlinkOutcomes :
       LET r == Symlink(t, link, sidecar, env)
       IN /\ link' = r.link
          /\ sidecar' = r.sidecar
          /\ calls' = Append(calls, Call("symlink", t, ~r.raised))
  /\ UNCHANGED <<fs0, platform, cmd, args, pc, code, server_dir, dirs, zips, cfg>>

PointerRmlink ==
  /\ pc = "pointer"
  /\ Len(calls) < MaxPointerCalls
  /\ \E envok \in BOOLEAN :
       LET r == Rmlink(link, envok)
       IN /\ link' = r.link
          /\ calls' = Append(calls, Call("rmlink", link, ~r.raised))
  /\ UNCHANGED <<fs0, platform, cmd, args, pc, code, server_dir, sidecar,
                 dirs, zips, cfg>>

PointerReadlink ==
  /\ pc = "pointer"
  /\ Len(calls) < MaxPointerCalls
  /\ \E envok \in BOOLEAN :
       LET r == Readlink(link, sidecar, envok)
       IN calls' = Append(calls, Call("readlink", r.value, r.exc = "none"))
  /\ UNCHANGED <<fs0, platform, cmd, args, pc, code, server_dir, fs>>

NextPointer ==
  \/ PointerSymlink
  \/ PointerRmlink
  \/ PointerReadlink

SpecPointer == InitPointer /\ [][NextPointer]_vars

\* ------------------------------------------------------- successive runs
\* The command is run again on the file system the previous run left
\* (InstallCommand / UpgradeCommand build a new Install object): a run on
\* a file system as in Init, then runs on what such a run left behind.
\* Every command line gives MaxRunOptions options at most.
MaxRunOptions == 1

RunArgs(c) ==
  {WithServer(o, s) : o \in {x \in OptionsOf(c) : Given(x) <= MaxRunOptions},
                      s \in Servers}

InstallArgs == RunArgs("install")

UpgradeArgs == RunArgs("upgrade")

InitRuns ==
  /\ Init
  /\ Given(args) <= MaxRunOptions

\* The run started on a file system as in Init.
FoundAsInit ==
  /\ fs0.link \in {NoLink, A, BSlash}
  /\ fs0.sidecar = (IF platform = "windows" THEN fs0.link ELSE NoLink)
  /\ fs0.zips = {ZipName(<<d>>) : d \in fs0.dirs}
  /\ \A d \in Dirs :
       IF PathExists(fs0.link, fs0.dirs) /\ DirOf(fs0.link) = d
       THEN fs0.cfg[d] \in {NoFile, ContentOf(d)}
       ELSE fs0.cfg[d] = NoFile

\* The process ends: what it leaves is the file system.
Exit ==
  /\ pc \in {"aborted", "started"}
  /\ FoundAsInit
  /\ pc' = "exited"
  /\ cmd' = "none"
  /\ args' = WithServer(Defaults, NoServer)
  /\ code' = -1
  /\ server_dir' = NoLink
  /\ calls' = <<>>
  /\ fs0' = FileSystem
  /\ UNCHANGED <<platform, fs>>

\* The command is run again.
Rerun ==
  /\ pc = "exited"
  /\ \/ cmd' = "install" /\ args' \in InstallArgs
     \/ cmd' = "upgrade" /\ args' \in UpgradeArgs
  /\ pc' = "check"
  /\ UNCHANGED <<fs0, platform, code, server_dir, fs, calls>>

NextRuns ==
  \/ Next
  \/ Exit
  \/ Rerun

SpecRuns == InitRuns /\ [][NextRuns]_vars

\* ------------------------------------------------------------------ claims
\* What the run found at args.sym.
PointerExisted == PathExists(fs0.link, fs0.dirs)

Untouched == FileSystem = fs0

Has(op, ok) == \E i \in 1..Len(calls) : calls[i].op = op /\ calls[i].ok = ok

Issued(op) == \E i \in 1..Len(calls) : calls[i].op = op

\* C1: an install run that finds the pointer aborts with code 30 at the
\* precondition check: it never gets past the check, the file system stays
\* as found and no external call (release resolution, stop, configure,
\* database, start) is issued.
C1_InstallOnExistingPointerAborts ==
  (cmd = "install" /\ PointerExisted) =>
    /\ pc \in {"check", "aborted"}
    /\ pc = "aborted" => code = 30
    /\ Untouched
    /\ server_dir = NoLink
    /\ calls = <<>>

C1_Witness ==
  cmd = "install" /\ PointerExisted /\ pc = "aborted" /\ code = 30

\* C2: an upgrade run that finds no pointer aborts with code 30 at the
\* precondition check, with the file system as found and no external call.
C2_UpgradeWithoutPointerAborts ==
  (cmd = "upgrade" /\ ~PointerExisted) =>
    /\ pc \in {"check", "aborted"}
    /\ pc = "aborted" => code = 30
    /\ Untouched
    /\ server_dir = NoLink
    /\ calls = <<>>

C2_Witness ==
  cmd = "upgrade" /\ ~PointerExisted /\ pc = "aborted" /\ code = 30
    /\ fs0.link = NoLink

\* The new directory and the pointer's target are one directory.
SameUnderlying ==
  /\ link # NoLink
  /\ DirOf(link) \in dirs
  /\ DirOf(server_dir) = DirOf(link)

\* C3: a call of directories() made while the new directory and the
\* pointer's target are the same underlying directory returns normally and
\* leaves the pointer, the sidecar, the directories, the archives and the
\* configuration files as they were, without any external call, whatever
\* skipdelete and skipdeletezip are.
C3_SwitchoverNoOp ==
  [][(pc = "directories" /\ SameUnderlying) =>
       /\ pc' \in {"init_db", "upgrade_db"}
       /\ code' = code
       /\ FileSystem' = FileSystem
       /\ calls' = calls]_vars

\* directories() has returned on an upgrade onto the active directory that
\* was named by another string, with both deletions enabled.
C3_Witness ==
  /\ cmd = "upgrade"
  /\ pc = "upgrade_db"
  /\ SameUnderlying
  /\ server_dir # link
  /\ args.skipdelete = "false"
  /\ args.skipdeletezip = "false"
  /\ Untouched

\* directories() went past the same-directory test and read the target.
SwitchedReadable == Has("readlink", TRUE)

OldDir == DirOf(fs0.link)
OldZip == ZipName(NormPath(fs0.link))
DirDeleted == OldDir \in fs0.dirs /\ OldDir \notin dirs
ZipDeleted == OldZip \in fs0.zips /\ OldZip \notin zips
SkipdeleteFalse == args.skipdelete \in {"false", "False"}
SkipdeletezipFalse == args.skipdeletezip \in {"false", "False"}

\* C4 as stated: after a switchover to a different directory with a
\* readable target, the previous directory is deleted iff skipdelete is
\* false and the previous archive is deleted iff skipdeletezip is false.
C4_Original ==
  SwitchedReadable =>
    /\ DirDeleted <=> SkipdeleteFalse
    /\ ZipDeleted <=> SkipdeletezipFalse

\* C4 as amended: the deletion of the previous directory is attempted iff
\* skipdelete is false and that of the previous archive iff skipdeletezip
\* is false, each whatever the other flag is; an artifact is gone exactly
\* when its deletion was attempted and did not fail.
C4_CleanupIndependence ==
  SwitchedReadable =>
    /\ Issued("rmtree") <=> SkipdeleteFalse
    /\ Issued("unlink") <=> SkipdeletezipFalse
    /\ DirDeleted <=> Has("rmtree", TRUE)
    /\ ZipDeleted <=> Has("unlink", TRUE)

\* The directory was deleted and the archive kept, by the flags alone.
C4_Witness ==
  /\ SwitchedReadable
  /\ args.skipdelete = "False"
  /\ args.skipdeletezip = "true"
  /\ DirDeleted
  /\ ~ZipDeleted
  /\ ~Issued("unlink")
  /\ pc = "started"

Copies == Cardinality({i \in 1..Len(calls) : calls[i].op = "copy"})

\* C5: after two calls of configure(copyold=True) in succession, with the
\* previous and the new instance different directories and the source
\* config.xml unchanged, the destination holds what the source holds and
\* at most one copy was performed.
C5_CopyIdempotent ==
  (/\ ConfigureReturns = 2
   /\ pc = "directories"
   /\ DirOf(link) # DirOf(server_dir)) =>
    /\ cfg[DirOf(link)] = fs0.cfg[DirOf(link)]
    /\ cfg[DirOf(server_dir)] = cfg[DirOf(link)]
    /\ Copies <= 1

\* The files of the load commands issued so far, in order.
LoadedFiles ==
  LET loads == SelectSeq(calls,
                 LAMBDA c : c.op = "run" /\ c.arg # AdminPorts /\ c.arg[1] = "load")
  IN [i \in 1..Len(loads) |-> loads[i].arg[2]]

IsFile(f) == f \in {"f1", "f2"}

\* Index of the first pre-start input that is not a file, Len + 1 if none.
FirstNonFile(files) ==
  IF \E i \in 1..Len(files) : ~IsFile(files[i])
  THEN CHOOSE i \in 1..Len(files) :
         ~IsFile(files[i]) /\ \A j \in 1..(i - 1) : IsFile(files[j])
  ELSE Len(files) + 1

AfterConfigure ==
  pc \in {"directories", "init_db", "upgrade_db", "save_env_vars", "start",
          "started"}

IssuedCommand(words) ==
  \E i \in 1..Len(calls) : calls[i].op = "run" /\ calls[i].arg = words

\* Calls that only the phases after the pre-start loop issue.
LaterPhaseCalled ==
  \/ IssuedCommand(AdminPorts)
  \/ IssuedCommand(<<"admin", "start">>)
  \/ Issued("readlink") \/ Issued("rmtree") \/ Issued("unlink")
  \/ Issued("rmlink") \/ Issued("DbAdmin") \/ Issued("save_env_vars")

\* C6: the load commands are issued in the order of the pre-start list,
\* one per input and only for inputs before the first non-file; a run
\* that aborts with code 50 has loaded exactly the inputs before the
\* first non-file and issued neither the port command nor any call of a
\* later phase; configure returns only when every input was a file and
\* was loaded.
C6_PrestartReplayOrder ==
  LET files == args.prestartfile
      loads == LoadedFiles
      bad == FirstNonFile(files)
  IN /\ Len(loads) <= Len(files)
     /\ \A i \in 1..Len(loads) : loads[i] = files[i] /\ i < bad
     /\ (pc = "aborted" /\ code = 50) =>
          /\ bad <= Len(files)
          /\ Len(loads) = bad - 1
          /\ ~Has("run", FALSE)
          /\ ~LaterPhaseCalled
          /\ link = (IF cmd = "install" THEN server_dir ELSE fs0.link)
     /\ AfterConfigure => bad = Len(files) + 1 /\ loads = files

\* [f1, d1]: f1 was loaded, the run stopped at d1.
C6_Witness ==
  /\ args.prestartfile = <<"f1", "d1">>
  /\ pc = "aborted"
  /\ code = 50
  /\ LoadedFiles = <<"f1">>

NewDir == DirOf(server_dir)

DefaultDeletion ==
  /\ args.skipdelete = Defaults.skipdelete
  /\ args.skipdeletezip = Defaults.skipdeletezip

UpgradeToOtherDirectory ==
  /\ cmd = "upgrade"
  /\ pc = "started"
  /\ NewDir # OldDir

\* C7 as stated: a successful upgrade from A to another directory B with
\* the deletion options at their defaults ends with the pointer on B and
\* A's directory tree deleted.
C7_Original ==
  (UpgradeToOtherDirectory /\ DefaultDeletion) =>
    /\ link # NoLink /\ DirOf(link) = NewDir
    /\ OldDir \notin dirs

\* C7 as amended: such a run ends with the pointer on B and A's directory
\* tree kept (skipdelete defaults to "true"): no rmtree is issued.
C7_DefaultUpgradeKeepsOldDirectory ==
  (UpgradeToOtherDirectory /\ DefaultDeletion) =>
    /\ link = server_dir /\ DirOf(link) = NewDir
    /\ NewDir \in dirs
    /\ OldDir \in dirs
    /\ ~Issued("rmtree")

C7_Witness ==
  /\ UpgradeToOtherDirectory
  /\ DefaultDeletion
  /\ fs0.link = A
  /\ server_dir = B
  /\ link = B
  /\ "A" \in dirs

HasDb(kind, ok) ==
  \E i \in 1..Len(calls) :
    calls[i].op = "DbAdmin" /\ calls[i].arg = <<kind>> /\ calls[i].ok = ok

\* C8: in the terminal state Started the pointer exists and designates the
\* release directory of the run, configure has completed (its port
\* command succeeded), every requested database step has succeeded, and
\* no pointer removal or creation has failed.
C8_StartedPointerInvariant ==
  pc = "started" =>
    /\ link # NoLink
    /\ DirOf(link) \in dirs
    /\ DirOf(link) = NewDir
    /\ \E i \in 1..Len(calls) :
         calls[i].op = "run" /\ calls[i].arg = AdminPorts /\ calls[i].ok
    /\ (cmd = "install" /\ args.initdb) => HasDb("init", TRUE)
    /\ args.upgradedb => HasDb("upgrade", TRUE)
    /\ ~Has("DbAdmin", FALSE)
    /\ ~Has("rmlink", FALSE)
    /\ ~Has("symlink", FALSE)

\* An upgrade that repointed the pointer and upgraded the database.
C8_Witness ==
  /\ pc = "started"
  /\ cmd = "upgrade"
  /\ args.upgradedb
  /\ link # fs0.link
  /\ Has("rmlink", TRUE)
  /\ Has("symlink", TRUE)

WebStopAttempted(cs) ==
  \E i \in 1..Len(cs) : cs[i].op = "bin" /\ cs[i].arg[1] = "web"

CoreStopAttempted(cs) ==
  \E i \in 1..Len(cs) : cs[i].op = "bin" /\ cs[i].arg[1] = "admin"

StopFailed ==
  \E i \in 1..Len(calls) : calls[i].op = "bin" /\ ~calls[i].ok

\* C9: the stop phase never aborts the run: whatever fails in it, the run
\* goes on to the archive phase with no exit code, the core stop was
\* attempted, and the web stop was attempted when web is enabled; a run
\* that aborts after a failed stop aborts with a Stop code of configure or
\* on a failed call of a later phase.
C9_StopBestEffort ==
  /\ [][pc = "stop" =>
          /\ pc' = "archive_logs"
          /\ code' = -1
          /\ FileSystem' = FileSystem
          /\ CoreStopAttempted(calls')
          /\ args.skipweb = "false" => WebStopAttempted(calls')]_vars
  /\ [](StopFailed /\ pc = "aborted" =>
          \/ code \in {40, 50}
          \/ calls[Len(calls)].op \notin {"bin"} /\ ~calls[Len(calls)].ok)

\* Core stop and web stop both failed and the run reached Started.
C9_Witness ==
  /\ pc = "started"
  /\ \E i \in 1..Len(calls) :
       calls[i].op = "bin" /\ calls[i].arg[1] = "admin" /\ ~calls[i].ok
  /\ \E i \in 1..Len(calls) :
       calls[i].op = "bin" /\ calls[i].arg[1] = "web" /\ ~calls[i].ok
  /\ args.archivelogs
  /\ Has("zip", TRUE)
  /\ Has("symlink", TRUE)

\* C10: a failure while archiving the logs does not abort the run, and
\* without the option the phase calls nothing.
C10_ArchiveBestEffort ==
  /\ ~(/\ pc = "aborted"
       /\ calls # <<>>
       /\ calls[Len(calls)].op = "zip"
       /\ ~calls[Len(calls)].ok)
  /\ ~args.archivelogs => ~Issued("zip")

AdminStart == <<"admin", "start">>

\* The database step `kind` succeeded before any start command was issued.
DbDoneBeforeStart(kind) ==
  \E j \in 1..Len(calls) :
    /\ calls[j].op = "DbAdmin" /\ calls[j].arg = <<kind>> /\ calls[j].ok
    /\ \A i \in 1..j : ~(calls[i].op = "run" /\ calls[i].arg = AdminStart)

\* C11: a failed database step (init on install, upgrade in both modes)
\* aborts the run at that step: it is the last call of the run, no
\* environment snapshot is written and no start command is issued; the
\* start command is issued only after every requested database step has
\* succeeded.
C11_DbFailureFatal ==
  /\ Has("DbAdmin", FALSE) =>
       /\ pc = "aborted"
       /\ code = 1
       /\ calls[Len(calls)].op = "DbAdmin"
       /\ ~calls[Len(calls)].ok
       /\ ~Issued("save_env_vars")
       /\ ~IssuedCommand(AdminStart)
  /\ IssuedCommand(AdminStart) =>
       /\ (cmd = "install" /\ args.initdb) => DbDoneBeforeStart("init")
       /\ args.upgradedb => DbDoneBeforeStart("upgrade")
       /\ ~Has("DbAdmin", FALSE)

\* An upgrade whose database upgrade failed after the switchover.
C11_Witness ==
  /\ cmd = "upgrade"
  /\ pc = "aborted"
  /\ HasDb("upgrade", FALSE)
  /\ Has("symlink", TRUE)

\* C12: in every run that got past its database steps the environment
\* snapshot is attempted, and a failed snapshot does not abort the run:
\* the start command is still issued.
C12_EnvPersistenceNonFatal ==
  /\ pc \in {"start", "started"} => Issued("save_env_vars")
  /\ IssuedCommand(AdminStart) => Issued("save_env_vars")
  /\ (Has("save_env_vars", FALSE) /\ pc \in {"started", "aborted"}) =>
       IssuedCommand(AdminStart)

LastCall == calls[Len(calls)]

\* C13: in a switchover to a different directory, a failed read of the
\* pointer's target (os.readlink or the sidecar file) does not abort the
\* run: no deletion is attempted, the pointer is removed and, unless the
\* removal or the creation itself fails, designates the new directory.
C13_ReadFailureNotFatal ==
  Has("readlink", FALSE) =>
    /\ ~(pc = "aborted" /\ LastCall.op = "readlink")
    /\ ~Issued("rmtree")
    /\ ~Issued("unlink")
    /\ Issued("rmlink")
    /\ Has("rmlink", TRUE) => Issued("symlink")
    /\ (Has("rmlink", TRUE) /\ ~Has("symlink", FALSE)) => link = server_dir

\* The previous instance (the pointer's target as the run found it) has
\* no config.xml and the run is to copy it.
CopyFromUnconfigured ==
  /\ cmd = "upgrade"
  /\ ~args.ignoreconfig
  /\ PointerExisted
  /\ fs0.cfg[OldDir] = NoFile

IssuedLoad ==
  \E i \in 1..Len(calls) : calls[i].op = "run" /\ calls[i].arg[1] = "load"

\* C14: an upgrade that is to copy the old configuration and whose previous
\* instance has no config.xml aborts in configure with code 40, leaving the
\* file system and the calls as configure found them; such a run never
\* gets past configure: no copy, no load, no port command, no deletion, no
\* pointer change, no database step, no snapshot and no start.
C14_MissingConfigAborts ==
  /\ [][(pc = "configure" /\ CopyFromUnconfigured) =>
          /\ pc' = "aborted"
          /\ code' = 40
          /\ calls' = calls
          /\ FileSystem' = FileSystem]_vars
  /\ [](CopyFromUnconfigured =>
          /\ ~AfterConfigure
          /\ ~Issued("copy")
          /\ ~IssuedLoad
          /\ ~LaterPhaseCalled
          /\ link = fs0.link
          /\ sidecar = fs0.sidecar
          /\ fs0.dirs \subseteq dirs
          /\ fs0.zips \subseteq zips
          /\ cfg = fs0.cfg)

\* The old service was stopped, then configure found no config.xml.
C14_Witness ==
  /\ CopyFromUnconfigured
  /\ pc = "aborted"
  /\ code = 40
  /\ CoreStopAttempted(calls)
  /\ args.prestartfile # <<>>
  /\ DirOf(server_dir) # OldDir

\* The release has to be downloaded (no server given) or unzipped (the
\* server is a local archive) and unpacking is disabled.
UnpackNeededButDisabled ==
  /\ args.skipunzip
  /\ \/ args.server = NoServer
     \/ args.server = BZip /\ ZipName(B) \in fs0.zips

\* C15: with skipunzip set and a release that would have to be downloaded
\* or unzipped, get_server_dir ends the run with code 0 and changes
\* nothing; in both modes such a run never gets past get_server_dir: the
\* file system stays as found (no pointer created on install) and no call
\* is issued (no stop on upgrade, no configure, switchover, database step
\* or start).
C15_SkipUnzipExitsEarly ==
  /\ [][(pc = "get_server_dir" /\ UnpackNeededButDisabled) =>
          /\ pc' = "aborted"
          /\ code' = 0
          /\ calls' = calls
          /\ FileSystem' = FileSystem]_vars
  /\ [](UnpackNeededButDisabled =>
          /\ pc \in {"check", "get_server_dir", "aborted"}
          /\ pc = "aborted" => code \in {0, 30}
          /\ (pc = "aborted" /\ code = 30) =>
               (PointerExisted <=> cmd = "install")
          /\ Untouched
          /\ server_dir = NoLink
          /\ calls = <<>>)

\* An install from a local archive with skipunzip: code 0, no pointer.
C15_Witness ==
  /\ cmd = "install"
  /\ args.skipunzip
  /\ args.server = BZip
  /\ pc = "aborted"
  /\ code = 0
  /\ link = NoLink

\* The phases of Install.__init__ in the order of the spec, with the
\* precondition check and the release resolution before them.
PhaseOrder ==
  <<"check", "get_server_dir", "link_early", "setup", "stop", "archive_logs",
    "configure", "directories", "init_db", "upgrade_db", "save_env_vars",
    "start", "started">>

PhaseRanks ==
  [p \in {PhaseOrder[i] : i \in 1..Len(PhaseOrder)} |->
     CHOOSE i \in 1..Len(PhaseOrder) : PhaseOrder[i] = p]

PhaseRank(p) == PhaseRanks[p]

\* The phase a call belongs to.  A symlink call is the early link on
\* install and the switchover on upgrade; iisreset follows a web command
\* of the stop or of the start phase.
CallPhase(c) ==
  CASE c.op \in {"get_as_local_path", "download", "unzip"} -> "get_server_dir"
    [] c.op = "symlink" ->
         IF cmd = "install" THEN "link_early" ELSE "directories"
    [] c.op \in {"setup_omero_cli", "setup_previous_omero_env"} -> "setup"
    [] c.op = "bin" -> "stop"
    [] c.op = "zip" -> "archive_logs"
    [] c.op \in {"copy", "remove"} -> "configure"
    [] c.op = "run" ->
         IF c.arg[1] = "load" \/ c.arg = AdminPorts THEN "configure"
         ELSE "start"
    [] c.op \in {"readlink", "rmtree", "unlink", "rmlink"} -> "directories"
    [] c.op = "DbAdmin" ->
         IF c.arg = <<"init">> THEN "init_db" ELSE "upgrade_db"
    [] c.op = "save_env_vars" -> "save_env_vars"
    [] c.op = "iisreset" -> IF pc = "stop" THEN "stop" ELSE "start"

\* The calls issued by the step.
NewCalls == SubSeq(calls', Len(calls) + 1, Len(calls'))

\* The calls that are issued once per phase at most.
OneOff(c) == c.op \notin {"bin", "run", "iisreset"}

\* The failures a run survives: those of the stop phase and, in the
\* switchover, a failed deletion or a failed read that is caught.
Survivable(c) ==
  pc = "stop" \/ c.op \in {"rmtree", "unlink"}
    \/ (c.op = "readlink" /\ platform = "windows")

\* C16: a run goes through its phases in the order link-early, prepare
\* runtime, stop, archive logs, configure, switchover, database init,
\* database upgrade, persist environment, start: every step moves to a
\* later phase or aborts and no step follows an abort, so no phase
\* executes twice; stop and archive logs are entered on upgrade only and
\* database init on install only; each phase issues only its own calls,
\* its one-off calls once, and a failed call that the phase does not
\* survive is the last call of the run.
C16_PhaseOrdering ==
  [][/\ pc \notin {"aborted", "started"}
     /\ pc' = "aborted" \/ PhaseRank(pc') > PhaseRank(pc)
     /\ pc' = "get_server_dir" => pc = "check"
     /\ pc' = "link_early" => pc = "get_server_dir"
     /\ pc' = "setup" => pc = "link_early"
     /\ pc' = "stop" => pc = "setup" /\ cmd = "upgrade"
     /\ pc' = "archive_logs" => pc = "stop"
     /\ pc' = "configure" =>
          pc = (IF cmd = "install" THEN "setup" ELSE "archive_logs")
     /\ pc' = "directories" => pc = "configure"
     /\ pc' = "init_db" => pc = "directories" /\ cmd = "install"
     /\ pc' = "upgrade_db" =>
          pc = (IF cmd = "install" THEN "init_db" ELSE "directories")
     /\ pc' = "save_env_vars" => pc = "upgrade_db"
     /\ pc' = "start" => pc = "save_env_vars"
     /\ pc' = "started" => pc = "start"
     /\ Len(calls') >= Len(calls)
     /\ SubSeq(calls', 1, Len(calls)) = calls
     /\ \A i \in 1..Len(NewCalls) :
          /\ CallPhase(NewCalls[i]) = pc
          /\ NewCalls[i].op = "iisreset" =>
               i > 1 /\ NewCalls[i - 1].arg[1] = "web"
          /\ \A j \in 1..(i - 1) :
               OneOff(NewCalls[i]) => NewCalls[j].op # NewCalls[i].op
          /\ (~NewCalls[i].ok /\ ~Survivable(NewCalls[i])) =>
               i = Len(NewCalls) /\ pc' = "aborted"]_vars

\* An upgrade that went through every phase of an upgrade.
C16_Witness ==
  /\ cmd = "upgrade"
  /\ pc = "started"
  /\ Has("zip", TRUE)
  /\ HasDb("upgrade", TRUE)
  /\ Has("rmlink", TRUE)
  /\ Has("symlink", TRUE)
  /\ Has("save_env_vars", TRUE)

\* Position of a call of an operation, 0 if it was not called.
Pos(op) ==
  IF Issued(op) THEN CHOOSE i \in 1..Len(calls) : calls[i].op = op ELSE 0

\* The steps of a switchover in the order of directories().
SwitchOrder == <<"readlink", "rmtree", "unlink", "rmlink", "symlink">>

SwitchRanks ==
  [o \in {SwitchOrder[i] : i \in 1..Len(SwitchOrder)} |->
     CHOOSE i \in 1..Len(SwitchOrder) : SwitchOrder[i] = o]

NewCall(op, ok) ==
  \E i \in 1..Len(NewCalls) : NewCalls[i].op = op /\ NewCalls[i].ok = ok

\* C17: a switchover that is not a no-op reads the target first, then
\* deletes the previous directory, then the previous archive, then removes
\* the pointer, then creates it, each at most once: a directory or an
\* archive disappears only in a switchover that read the target, the
\* pointer is created only after it was removed, a failed removal leaves
\* the pointer as it was, and no step of another phase deletes a
\* directory or an archive or changes the pointer, except the early link
\* of an install.
C17_DeleteBeforeSwap ==
  [][IF pc = "directories"
     THEN /\ \A i \in 1..Len(NewCalls) :
               /\ NewCalls[i].op \in DOMAIN SwitchRanks
               /\ \A j \in 1..(i - 1) :
                    SwitchRanks[NewCalls[j].op] < SwitchRanks[NewCalls[i].op]
          /\ NewCalls # <<>> => NewCalls[1].op = "readlink"
          /\ (dirs' # dirs \/ zips' # zips \/ cfg' # cfg) =>
               NewCall("readlink", TRUE)
          /\ dirs' # dirs <=> NewCall("rmtree", TRUE)
          /\ zips' # zips <=> NewCall("unlink", TRUE)
          /\ dirs' \subseteq dirs /\ zips' \subseteq zips
          /\ (NewCall("symlink", TRUE) \/ NewCall("symlink", FALSE)) =>
               /\ NewCall("rmlink", TRUE)
               /\ NewCalls[Len(NewCalls)].op = "symlink"
               /\ NewCalls[Len(NewCalls) - 1].op = "rmlink"
          /\ NewCall("rmlink", FALSE) =>
               link' = link /\ NewCalls[Len(NewCalls)].op = "rmlink"
          /\ NewCall("rmlink", TRUE) => link' \in {NoLink, server_dir}
          /\ link' # link => NewCall("rmlink", TRUE)
          /\ NewCall("symlink", TRUE) => link' = server_dir
          /\ NewCalls # <<>> => cmd = "upgrade"
     ELSE /\ dirs \subseteq dirs'
          /\ zips \subseteq zips'
          /\ link' # link => (cmd = "install" /\ pc = "link_early")
          /\ \A i \in 1..Len(NewCalls) :
               NewCalls[i].op \in DOMAIN SwitchRanks =>
                 NewCalls[i].op = "symlink" /\ pc = "link_early"]_vars

\* Both artifacts were deleted, then the pointer was removed and created.
C17_Witness ==
  /\ cmd = "upgrade"
  /\ pc = "started"
  /\ DirDeleted
  /\ ZipDeleted
  /\ Pos("readlink") < Pos("rmtree")
  /\ Pos("rmtree") < Pos("unlink")
  /\ Pos("unlink") < Pos("rmlink")
  /\ Pos("rmlink") < Pos("symlink")
  /\ link = server_dir

\* The call at position i is a symlink call that completed.
Linked(i) == calls[i].op = "symlink" /\ calls[i].ok

\* The call at position i is a readlink call that returned.
ReadBack(i) == calls[i].op = "readlink" /\ calls[i].ok

\* The target of the last completed symlink call before position i has
\* normal form p (no check when there is none).
LatestLinkIs(i, p) ==
  \A j \in 1..(i - 1) :
    (Linked(j) /\ \A k \in (j + 1)..(i - 1) : ~Linked(k)) =>
      NormPath(calls[j].arg) = p

\* C18 as stated: when symlink(t, link) has completed, the sidecar holds
\* exactly the normalised t and readlink(link) returns the normalised t.
C18_Original ==
  (calls # <<>> /\ Linked(Len(calls))) =>
    /\ sidecar = NormPath(LastCall.arg)
    /\ Readlink(link, sidecar, TRUE).value = NormPath(LastCall.arg)

\* C18 as amended: when symlink(t, link) has completed, the pointer and
\* the sidecar hold t as it was given, and a readlink(link) that succeeds
\* returns the normalised t; a readlink made right after a completed
\* symlink(t, link), whatever calls came before, returns the normalised t,
\* and every readlink that succeeds after a completed symlink returns the
\* normalised target of the last symlink that completed, never that of
\* an earlier one.
C18_EmulatedRoundTrip ==
  /\ (calls # <<>> /\ Linked(Len(calls))) =>
       /\ link = LastCall.arg
       /\ sidecar = LastCall.arg
       /\ Readlink(link, sidecar, TRUE) =
            [exc |-> "none", value |-> NormPath(LastCall.arg)]
       /\ Readlink(link, sidecar, FALSE).exc = "IOError"
  /\ \A i \in 2..Len(calls) :
       (ReadBack(i) /\ Linked(i - 1)) =>
         calls[i].arg = NormPath(calls[i - 1].arg)
  /\ \A i \in 1..Len(calls) :
       (ReadBack(i) /\ \E j \in 1..(i - 1) : Linked(j)) =>
         LatestLinkIs(i, calls[i].arg)

\* symlink(A), rmlink, symlink("B/"), readlink: B is read back, not A.
C18_Witness ==
  /\ Len(calls) = 4
  /\ Linked(1) /\ calls[1].arg = A
  /\ calls[2].op = "rmlink" /\ calls[2].ok
  /\ Linked(3) /\ calls[3].arg = BSlash
  /\ ReadBack(4) /\ calls[4].arg = B
  /\ sidecar = BSlash

\* The archive that lies beside the release directory of the run.
NewZip == ZipName(<<NewDir>>)

Resolved == server_dir # NoLink

\* C19: no step of a run deletes the release directory of the run or the
\* archive beside it: a directory or an archive that a step deletes is
\* that of the pointer's target as the step found it, and that target is
\* another directory than the new one; an install run and an upgrade onto
\* the directory the pointer already designates delete nothing.
C19_NewDirNeverDeleted ==
  [][pc \notin {"aborted", "started"} =>
       /\ (Resolved /\ NewDir \in dirs) => NewDir \in dirs'
       /\ (Resolved /\ NewZip \in zips) => NewZip \in zips'
       /\ dirs \ dirs' # {} =>
            /\ dirs \ dirs' = {DirOf(link)}
            /\ DirOf(link) # NewDir
       /\ zips \ zips' # {} =>
            /\ zips \ zips' = {ZipName(NormPath(link))}
            /\ DirOf(link) # NewDir
       /\ (cmd = "install" \/ (pc = "directories" /\ SameUnderlying)) =>
            (dirs \subseteq dirs' /\ zips \subseteq zips')]_vars

\* The install run ended in an abort after its early link: the prepare
\* runtime phase had begun.
InstallAbortedAfterLink ==
  /\ cmd = "install"
  /\ pc = "aborted"
  /\ Issued("setup_omero_cli")

\* C20: an install run that aborts after the early link (in prepare
\* runtime, in configure, in a database step, in the snapshot or in start)
\* leaves the pointer in place, designating the release directory of the
\* run, which exists; on the file system it leaves, the precondition check
\* of an install gives code 30 and that of an upgrade passes.
C20_LinkEarlyNotRolledBack ==
  InstallAbortedAfterLink =>
    /\ code \in {1, 50}
    /\ fs0.link = NoLink
    /\ Has("symlink", TRUE)
    /\ link = server_dir
    /\ PathExists(link, dirs)
    /\ DirOf(link) = NewDir
    /\ platform = "windows" => sidecar = server_dir
    /\ CheckCode("install", PathExists(link, dirs)) = 30
    /\ CheckCode("upgrade", PathExists(link, dirs)) = -1

\* An install stopped by a directory among its pre-start inputs.
C20_Witness ==
  /\ InstallAbortedAfterLink
  /\ code = 50
  /\ link = BSlash
  /\ fs0.link = NoLink
  /\ fs0.dirs = {"B"}

====
